---- MODULE Spec2Model ----
(***************************************************************************)
(* Model of actions/update-helm-chart/update_helm_chart.py: the semver     *)
(* extractor, the release classifier, the version bumper, update_chart and *)
(* the handle_update / main flow over the files of the working directory:  *)
(* the Chart.yaml documents, the --result-file and the --github-output     *)
(* file.                                                                   *)
(*                                                                         *)
(* A string is a sequence of characters, so that parsing (re.search + int) *)
(* and formatting (f-strings) are computed, not assumed.  A character is a *)
(* one-character string when it is printable ASCII or one of \t \n \f \r,  *)
(* and the name "U+hhhh" of its code point otherwise.                      *)
(***************************************************************************)
EXTENDS Integers, Sequences, FiniteSets, TLC

VARIABLES fs, last, call, runs

vars == <<fs, last, call, runs>>

(***************************************************************************)
(* Bounds of the model.                                                    *)
(***************************************************************************)
\* longest input string handed to extract_semver
MaxLen == 6
\* longest version string handed to the classifier and the bumper
MaxVerLen == 5
\* largest component of a version triple drawn as an input
MaxV == 1
\* number of invocations of the tool in one behaviour
MaxRuns == 2

(***************************************************************************)
(* Characters and strings.                                                 *)
(***************************************************************************)
\* the decimal digits of Unicode (category Nd), which \d of a str pattern
\* matches and int() converts: each row holds the digits 0..9 of one script
DigitBlocks ==
    <<
       <<"0", "1", "2", "3", "4", "5", "6", "7", "8", "9">>,
       <<"U+0660", "U+0661", "U+0662", "U+0663", "U+0664", "U+0665", "U+0666", "U+0667", "U+0668", "U+0669">>,
       <<"U+06F0", "U+06F1", "U+06F2", "U+06F3", "U+06F4", "U+06F5", "U+06F6", "U+06F7", "U+06F8", "U+06F9">>,
       <<"U+07C0", "U+07C1", "U+07C2", "U+07C3", "U+07C4", "U+07C5", "U+07C6", "U+07C7", "U+07C8", "U+07C9">>,
       <<"U+0966", "U+0967", "U+0968", "U+0969", "U+096A", "U+096B", "U+096C", "U+096D", "U+096E", "U+096F">>,
       <<"U+09E6", "U+09E7", "U+09E8", "U+09E9", "U+09EA", "U+09EB", "U+09EC", "U+09ED", "U+09EE", "U+09EF">>,
       <<"U+0A66", "U+0A67", "U+0A68", "U+0A69", "U+0A6A", "U+0A6B", "U+0A6C", "U+0A6D", "U+0A6E", "U+0A6F">>,
       <<"U+0AE6", "U+0AE7", "U+0AE8", "U+0AE9", "U+0AEA", "U+0AEB", "U+0AEC", "U+0AED", "U+0AEE", "U+0AEF">>,
       <<"U+0B66", "U+0B67", "U+0B68", "U+0B69", "U+0B6A", "U+0B6B", "U+0B6C", "U+0B6D", "U+0B6E", "U+0B6F">>,
       <<"U+0BE6", "U+0BE7", "U+0BE8", "U+0BE9", "U+0BEA", "U+0BEB", "U+0BEC", "U+0BED", "U+0BEE", "U+0BEF">>,
       <<"U+0C66", "U+0C67", "U+0C68", "U+0C69", "U+0C6A", "U+0C6B", "U+0C6C", "U+0C6D", "U+0C6E", "U+0C6F">>,
       <<"U+0CE6", "U+0CE7", "U+0CE8", "U+0CE9", "U+0CEA", "U+0CEB", "U+0CEC", "U+0CED", "U+0CEE", "U+0CEF">>,
       <<"U+0D66", "U+0D67", "U+0D68", "U+0D69", "U+0D6A", "U+0D6B", "U+0D6C", "U+0D6D", "U+0D6E", "U+0D6F">>,
       <<"U+0DE6", "U+0DE7", "U+0DE8", "U+0DE9", "U+0DEA", "U+0DEB", "U+0DEC", "U+0DED", "U+0DEE", "U+0DEF">>,
       <<"U+0E50", "U+0E51", "U+0E52", "U+0E53", "U+0E54", "U+0E55", "U+0E56", "U+0E57", "U+0E58", "U+0E59">>,
       <<"U+0ED0", "U+0ED1", "U+0ED2", "U+0ED3", "U+0ED4", "U+0ED5", "U+0ED6", "U+0ED7", "U+0ED8", "U+0ED9">>,
       <<"U+0F20", "U+0F21", "U+0F22", "U+0F23", "U+0F24", "U+0F25", "U+0F26", "U+0F27", "U+0F28", "U+0F29">>,
       <<"U+1040", "U+1041", "U+1042", "U+1043", "U+1044", "U+1045", "U+1046", "U+1047", "U+1048", "U+1049">>,
       <<"U+1090", "U+1091", "U+1092", "U+1093", "U+1094", "U+1095", "U+1096", "U+1097", "U+1098", "U+1099">>,
       <<"U+17E0", "U+17E1", "U+17E2", "U+17E3", "U+17E4", "U+17E5", "U+17E6", "U+17E7", "U+17E8", "U+17E9">>,
       <<"U+1810", "U+1811", "U+1812", "U+1813", "U+1814", "U+1815", "U+1816", "U+1817", "U+1818", "U+1819">>,
       <<"U+1946", "U+1947", "U+1948", "U+1949", "U+194A", "U+194B", "U+194C", "U+194D", "U+194E", "U+194F">>,
       <<"U+19D0", "U+19D1", "U+19D2", "U+19D3", "U+19D4", "U+19D5", "U+19D6", "U+19D7", "U+19D8", "U+19D9">>,
       <<"U+1A80", "U+1A81", "U+1A82", "U+1A83", "U+1A84", "U+1A85", "U+1A86", "U+1A87", "U+1A88", "U+1A89">>,
       <<"U+1A90", "U+1A91", "U+1A92", "U+1A93", "U+1A94", "U+1A95", "U+1A96", "U+1A97", "U+1A98", "U+1A99">>,
       <<"U+1B50", "U+1B51", "U+1B52", "U+1B53", "U+1B54", "U+1B55", "U+1B56", "U+1B57", "U+1B58", "U+1B59">>,
       <<"U+1BB0", "U+1BB1", "U+1BB2", "U+1BB3", "U+1BB4", "U+1BB5", "U+1BB6", "U+1BB7", "U+1BB8", "U+1BB9">>,
       <<"U+1C40", "U+1C41", "U+1C42", "U+1C43", "U+1C44", "U+1C45", "U+1C46", "U+1C47", "U+1C48", "U+1C49">>,
       <<"U+1C50", "U+1C51", "U+1C52", "U+1C53", "U+1C54", "U+1C55", "U+1C56", "U+1C57", "U+1C58", "U+1C59">>,
       <<"U+A620", "U+A621", "U+A622", "U+A623", "U+A624", "U+A625", "U+A626", "U+A627", "U+A628", "U+A629">>,
       <<"U+A8D0", "U+A8D1", "U+A8D2", "U+A8D3", "U+A8D4", "U+A8D5", "U+A8D6", "U+A8D7", "U+A8D8", "U+A8D9">>,
       <<"U+A900", "U+A901", "U+A902", "U+A903", "U+A904", "U+A905", "U+A906", "U+A907", "U+A908", "U+A909">>,
       <<"U+A9D0", "U+A9D1", "U+A9D2", "U+A9D3", "U+A9D4", "U+A9D5", "U+A9D6", "U+A9D7", "U+A9D8", "U+A9D9">>,
       <<"U+A9F0", "U+A9F1", "U+A9F2", "U+A9F3", "U+A9F4", "U+A9F5", "U+A9F6", "U+A9F7", "U+A9F8", "U+A9F9">>,
       <<"U+AA50", "U+AA51", "U+AA52", "U+AA53", "U+AA54", "U+AA55", "U+AA56", "U+AA57", "U+AA58", "U+AA59">>,
       <<"U+ABF0", "U+ABF1", "U+ABF2", "U+ABF3", "U+ABF4", "U+ABF5", "U+ABF6", "U+ABF7", "U+ABF8", "U+ABF9">>,
       <<"U+FF10", "U+FF11", "U+FF12", "U+FF13", "U+FF14", "U+FF15", "U+FF16", "U+FF17", "U+FF18", "U+FF19">>,
       <<"U+104A0", "U+104A1", "U+104A2", "U+104A3", "U+104A4", "U+104A5", "U+104A6", "U+104A7", "U+104A8", "U+104A9">>,
       <<"U+10D30", "U+10D31", "U+10D32", "U+10D33", "U+10D34", "U+10D35", "U+10D36", "U+10D37", "U+10D38", "U+10D39">>,
       <<"U+11066", "U+11067", "U+11068", "U+11069", "U+1106A", "U+1106B", "U+1106C", "U+1106D", "U+1106E", "U+1106F">>,
       <<"U+110F0", "U+110F1", "U+110F2", "U+110F3", "U+110F4", "U+110F5", "U+110F6", "U+110F7", "U+110F8", "U+110F9">>,
       <<"U+11136", "U+11137", "U+11138", "U+11139", "U+1113A", "U+1113B", "U+1113C", "U+1113D", "U+1113E", "U+1113F">>,
       <<"U+111D0", "U+111D1", "U+111D2", "U+111D3", "U+111D4", "U+111D5", "U+111D6", "U+111D7", "U+111D8", "U+111D9">>,
       <<"U+112F0", "U+112F1", "U+112F2", "U+112F3", "U+112F4", "U+112F5", "U+112F6", "U+112F7", "U+112F8", "U+112F9">>,
       <<"U+11450", "U+11451", "U+11452", "U+11453", "U+11454", "U+11455", "U+11456", "U+11457", "U+11458", "U+11459">>,
       <<"U+114D0", "U+114D1", "U+114D2", "U+114D3", "U+114D4", "U+114D5", "U+114D6", "U+114D7", "U+114D8", "U+114D9">>,
       <<"U+11650", "U+11651", "U+11652", "U+11653", "U+11654", "U+11655", "U+11656", "U+11657", "U+11658", "U+11659">>,
       <<"U+116C0", "U+116C1", "U+116C2", "U+116C3", "U+116C4", "U+116C5", "U+116C6", "U+116C7", "U+116C8", "U+116C9">>,
       <<"U+11730", "U+11731", "U+11732", "U+11733", "U+11734", "U+11735", "U+11736", "U+11737", "U+11738", "U+11739">>,
       <<"U+118E0", "U+118E1", "U+118E2", "U+118E3", "U+118E4", "U+118E5", "U+118E6", "U+118E7", "U+118E8", "U+118E9">>,
       <<"U+11950", "U+11951", "U+11952", "U+11953", "U+11954", "U+11955", "U+11956", "U+11957", "U+11958", "U+11959">>,
       <<"U+11C50", "U+11C51", "U+11C52", "U+11C53", "U+11C54", "U+11C55", "U+11C56", "U+11C57", "U+11C58", "U+11C59">>,
       <<"U+11D50", "U+11D51", "U+11D52", "U+11D53", "U+11D54", "U+11D55", "U+11D56", "U+11D57", "U+11D58", "U+11D59">>,
       <<"U+11DA0", "U+11DA1", "U+11DA2", "U+11DA3", "U+11DA4", "U+11DA5", "U+11DA6", "U+11DA7", "U+11DA8", "U+11DA9">>,
       <<"U+16A60", "U+16A61", "U+16A62", "U+16A63", "U+16A64", "U+16A65", "U+16A66", "U+16A67", "U+16A68", "U+16A69">>,
       <<"U+16AC0", "U+16AC1", "U+16AC2", "U+16AC3", "U+16AC4", "U+16AC5", "U+16AC6", "U+16AC7", "U+16AC8", "U+16AC9">>,
       <<"U+16B50", "U+16B51", "U+16B52", "U+16B53", "U+16B54", "U+16B55", "U+16B56", "U+16B57", "U+16B58", "U+16B59">>,
       <<"U+1D7CE", "U+1D7CF", "U+1D7D0", "U+1D7D1", "U+1D7D2", "U+1D7D3", "U+1D7D4", "U+1D7D5", "U+1D7D6", "U+1D7D7">>,
       <<"U+1D7D8", "U+1D7D9", "U+1D7DA", "U+1D7DB", "U+1D7DC", "U+1D7DD", "U+1D7DE", "U+1D7DF", "U+1D7E0", "U+1D7E1">>,
       <<"U+1D7E2", "U+1D7E3", "U+1D7E4", "U+1D7E5", "U+1D7E6", "U+1D7E7", "U+1D7E8", "U+1D7E9", "U+1D7EA", "U+1D7EB">>,
       <<"U+1D7EC", "U+1D7ED", "U+1D7EE", "U+1D7EF", "U+1D7F0", "U+1D7F1", "U+1D7F2", "U+1D7F3", "U+1D7F4", "U+1D7F5">>,
       <<"U+1D7F6", "U+1D7F7", "U+1D7F8", "U+1D7F9", "U+1D7FA", "U+1D7FB", "U+1D7FC", "U+1D7FD", "U+1D7FE", "U+1D7FF">>,
       <<"U+1E140", "U+1E141", "U+1E142", "U+1E143", "U+1E144", "U+1E145", "U+1E146", "U+1E147", "U+1E148", "U+1E149">>,
       <<"U+1E2F0", "U+1E2F1", "U+1E2F2", "U+1E2F3", "U+1E2F4", "U+1E2F5", "U+1E2F6", "U+1E2F7", "U+1E2F8", "U+1E2F9">>,
       <<"U+1E950", "U+1E951", "U+1E952", "U+1E953", "U+1E954", "U+1E955", "U+1E956", "U+1E957", "U+1E958", "U+1E959">>,
       <<"U+1FBF0", "U+1FBF1", "U+1FBF2", "U+1FBF3", "U+1FBF4", "U+1FBF5", "U+1FBF6", "U+1FBF7", "U+1FBF8", "U+1FBF9">>
    >>

\* the digits str() and f-strings write
AsciiDigits == DigitBlocks[1]

\* every character \d of SEMVER_RE matches
DigitChars == UNION { {DigitBlocks[b][k] : k \in 1..10} : b \in 1..Len(DigitBlocks) }

IsDigit(c) == c \in DigitChars

\* int(c) for every digit character
DigitValues ==
    [c \in DigitChars |->
        (CHOOSE k \in 1..10 : \E b \in 1..Len(DigitBlocks) : DigitBlocks[b][k] = c) - 1]

DigitVal(c) == DigitValues[c]

\* int(text) for a run of digits
RECURSIVE StrToInt(_)
StrToInt(ds) ==
    IF ds = <<>> THEN 0
    ELSE 10 * StrToInt(SubSeq(ds, 1, Len(ds) - 1)) + DigitVal(ds[Len(ds)])

\* str(n) / f"{n}" for a non-negative int
RECURSIVE IntToStr(_)
IntToStr(n) ==
    IF n < 10 THEN <<AsciiDigits[n + 1]>>
    ELSE IntToStr(n \div 10) \o <<AsciiDigits[(n % 10) + 1]>>

\* f"{a}.{b}.{c}"
FormatTriple(a, b, c) == IntToStr(a) \o <<".">> \o IntToStr(b) \o <<".">> \o IntToStr(c)

\* the characters str.strip() removes: those for which str.isspace() holds
WhitespaceChars ==
    {"\t", "\n", "U+000B", "\f", "\r", "U+001C", "U+001D", "U+001E", "U+001F", " ",
     "U+0085", "U+00A0", "U+1680", "U+2000", "U+2001", "U+2002", "U+2003", "U+2004",
     "U+2005", "U+2006", "U+2007", "U+2008", "U+2009", "U+200A", "U+2028", "U+2029",
     "U+202F", "U+205F", "U+3000"}

\* s.strip(chars): the characters of the set are removed from both ends
RECURSIVE StripChars(_, _)
StripChars(s, chars) ==
    IF s = <<>> THEN s
    ELSE IF s[1] \in chars THEN StripChars(Tail(s), chars)
    ELSE IF s[Len(s)] \in chars THEN StripChars(SubSeq(s, 1, Len(s) - 1), chars)
    ELSE s

\* str.strip()
Strip(s) == StripChars(s, WhitespaceChars)

(***************************************************************************)
(* SEMVER_RE.search: leftmost match of (\d+)\.(\d+)\.(\d+), digits greedy. *)
(***************************************************************************)
\* first index >= i that does not hold a digit (greedy \d+ starting at i)
RECURSIVE RunEnd(_, _)
RunEnd(s, i) ==
    IF i <= Len(s) /\ IsDigit(s[i]) THEN RunEnd(s, i + 1) ELSE i

NoMatch == [ok |-> FALSE, from |-> 0, d1 |-> 0, d2 |-> 0, to |-> 0]

\* the pattern anchored at position i
MatchAt(s, i) ==
    LET e1 == RunEnd(s, i)
        e2 == RunEnd(s, e1 + 1)
        e3 == RunEnd(s, e2 + 1)
    IN  IF /\ e1 > i
           /\ e1 <= Len(s) /\ s[e1] = "."
           /\ e2 > e1 + 1
           /\ e2 <= Len(s) /\ s[e2] = "."
           /\ e3 > e2 + 1
        THEN [ok |-> TRUE, from |-> i, d1 |-> e1, d2 |-> e2, to |-> e3 - 1]
        ELSE NoMatch

\* the scan of re.search over the start positions, left to right
RECURSIVE Search(_, _)
Search(s, i) ==
    IF i > Len(s) THEN NoMatch
    ELSE IF MatchAt(s, i).ok THEN MatchAt(s, i)
    ELSE Search(s, i + 1)

\* a wrong scan: keeps the rightmost start position that matches
RECURSIVE SearchLast(_, _)
SearchLast(s, i) ==
    IF i > Len(s) THEN NoMatch
    ELSE IF SearchLast(s, i + 1).ok THEN SearchLast(s, i + 1)
    ELSE MatchAt(s, i)

NoSemver == [ok |-> FALSE, text |-> <<>>, tuple |-> <<0, 0, 0>>]

ExtractWith(m, s) ==
    IF ~m.ok THEN NoSemver
    ELSE [ok    |-> TRUE,
          text  |-> SubSeq(s, m.from, m.to),
          tuple |-> << StrToInt(SubSeq(s, m.from, m.d1 - 1)),
                       StrToInt(SubSeq(s, m.d1 + 1, m.d2 - 1)),
                       StrToInt(SubSeq(s, m.d2 + 1, m.to)) >>]

extract_semver_last(version_source) == ExtractWith(SearchLast(version_source, 1), version_source)

\* ok = FALSE stands for the raised ChartUpdateError("Unable to find ...")
extract_semver(version_source) == ExtractWith(Search(version_source, 1), version_source)

(***************************************************************************)
(* Values of a YAML field as yaml.safe_load returns them: the key absent,  *)
(* null (None), a number (int or float), a boolean, or a string.  s is     *)
(* str(value).                                                             *)
(***************************************************************************)
YAbsent == [kind |-> "absent", s |-> <<>>]
YNull == [kind |-> "null", s |-> <<>>]
YNum == [kind |-> "num", s |-> <<"1", ".", "5">>]
YZero == [kind |-> "num", s |-> <<"0">>]
YTrue == [kind |-> "bool", s |-> <<"T", "r", "u", "e">>]
YFalse == [kind |-> "bool", s |-> <<"F", "a", "l", "s", "e">>]
YStr(s) == [kind |-> "str", s |-> s]

\* str() of the numbers that are false: 0, 0.0 and -0.0
ZeroTexts == { <<"0">>, <<"0", ".", "0">>, <<"-", "0", ".", "0">> }

\* dict.get(key): None for an absent key
DictGet(v) == IF v.kind = "absent" THEN YNull ELSE v

\* bool(value) of a value read from the document
Truthy(v) == \/ v.kind = "num" /\ v.s \notin ZeroTexts
             \/ v.kind = "bool" /\ v = YTrue
             \/ v.kind = "str" /\ v.s # <<>>

\* release types handed to bump_semver and update_chart
ReleaseTypeArgs == {"major", "minor", "patch", "none", "auto", "hotfix"}

\* the ChartUpdateError raises of the script, named by what they report
ChartUpdateErrors ==
    {"NoSemverFound", "DowngradeRejected", "MissingMetadataFile",
     "MissingVersionField", "UnsupportedReleaseType"}

\* a returned value or a raised exception (exc = "" when none was raised)
Ret(exc, text, tuple, rtype) == [exc |-> exc, text |-> text, tuple |-> tuple, rtype |-> rtype]

\* Python's < on 3-tuples of ints
TupleLess(a, b) ==
    \/ a[1] < b[1]
    \/ a[1] = b[1] /\ a[2] < b[2]
    \/ a[1] = b[1] /\ a[2] = b[2] /\ a[3] < b[3]

Returned(rtype) == Ret("", <<>>, <<0, 0, 0>>, rtype)

Raised(exc) == Ret(exc, <<>>, <<0, 0, 0>>, "")

\* a wrong classifier: patch is looked at before minor and major
compare_triples_reversed(old_tuple, new_tuple) ==
    IF TupleLess(new_tuple, old_tuple) THEN Raised("DowngradeRejected")
    ELSE IF new_tuple[3] # old_tuple[3] THEN Returned("patch")
    ELSE IF new_tuple[2] # old_tuple[2] THEN Returned("minor")
    ELSE IF new_tuple[1] # old_tuple[1] THEN Returned("major")
    ELSE Returned("none")

\* lines 61-78 of determine_release_type, once the old version is parsed
compare_triples(old_tuple, new_tuple) ==
    IF TupleLess(new_tuple, old_tuple) THEN Raised("DowngradeRejected")
    ELSE IF new_tuple[1] # old_tuple[1] THEN Returned("major")
    ELSE IF new_tuple[2] # old_tuple[2] THEN Returned("minor")
    ELSE IF new_tuple[3] # old_tuple[3] THEN Returned("patch")
    ELSE Returned("none")

\* the try/except of lines 56-59: old is extract_semver(old_version)
classify_parsed(old, new_version_tuple) ==
    IF ~old.ok THEN Returned("patch") ELSE compare_triples(old.tuple, new_version_tuple)

\* old_version is chart.get("appVersion"); the result's rtype is the release type
determine_release_type(old_version, new_version_tuple) ==
    IF ~Truthy(old_version) THEN Returned("patch")
    \* re.search on a non-string raises TypeError, which line 58 does not catch
    ELSE IF old_version.kind # "str" THEN Raised("TypeError")
    ELSE classify_parsed(extract_semver(old_version.s), new_version_tuple)

\* a wrong bumper: a minor bump keeps the patch component
bump_triple_keep_patch(t, release_type) ==
    IF release_type = "major" THEN Ret("", FormatTriple(t[1] + 1, 0, 0), <<0, 0, 0>>, "")
    ELSE IF release_type = "minor"
         THEN Ret("", FormatTriple(t[1], t[2] + 1, t[3]), <<0, 0, 0>>, "")
    ELSE IF release_type = "patch"
         THEN Ret("", FormatTriple(t[1], t[2], t[3] + 1), <<0, 0, 0>>, "")
    ELSE Raised("UnsupportedReleaseType")

\* lines 87-94 of bump_semver, once the version is parsed into t
bump_triple(t, release_type) ==
    IF release_type = "major" THEN Ret("", FormatTriple(t[1] + 1, 0, 0), <<0, 0, 0>>, "")
    ELSE IF release_type = "minor"
         THEN Ret("", FormatTriple(t[1], t[2] + 1, 0), <<0, 0, 0>>, "")
    ELSE IF release_type = "patch"
         THEN Ret("", FormatTriple(t[1], t[2], t[3] + 1), <<0, 0, 0>>, "")
    ELSE Raised("UnsupportedReleaseType")

\* v is extract_semver(version)
bump_parsed(v, release_type) ==
    IF ~v.ok THEN Raised("NoSemverFound") ELSE bump_triple(v.tuple, release_type)

\* the result's text is the returned version string
bump_semver(version, release_type) == bump_parsed(extract_semver(version), release_type)

(***************************************************************************)
(* The files on disk.  A file holds what was last written to it whole (a   *)
(* YAML mapping with its version and appVersion fields, the JSON payload   *)
(* of --result-file, or nothing) followed by the batches of key=value      *)
(* lines appended to it as --github-output.                                *)
(***************************************************************************)
NoParentUpdate == [present |-> FALSE, path |-> <<>>, old_version |-> <<>>, new_version |-> <<>>]

\* the result_payload of lines 225-235; parent_chart_update = NoParentUpdate
\* stands for None
Payload(oa, na, oc, nc, rtype, modified, parent_update, branch_name, has_changes) ==
    [old_app_version |-> oa, new_app_version |-> na,
     old_chart_version |-> oc, new_chart_version |-> nc,
     release_type |-> rtype, chart_modified |-> modified,
     parent_chart_update |-> parent_update,
     branch_name |-> branch_name, has_changes |-> has_changes]

NoPayload == Payload(<<>>, <<>>, <<>>, <<>>, "", FALSE, NoParentUpdate, <<>>, FALSE)

File(exists, body, version, appVersion, payload, outputs) ==
    [exists |-> exists, body |-> body, version |-> version, appVersion |-> appVersion,
     payload |-> payload, outputs |-> outputs]

\* a path that does not exist
NoFile == File(FALSE, "", YAbsent, YAbsent, NoPayload, <<>>)

\* a file of no bytes
EmptyFile == File(TRUE, "", YAbsent, YAbsent, NoPayload, <<>>)

\* a Chart.yaml holding the mapping {version: v, appVersion: a}, as it was
\* found or as dump_yaml writes it
ChartFile(v, a) == File(TRUE, "yaml", v, a, NoPayload, <<>>)

\* the file json.dump writes
ResultFile(payload) == File(TRUE, "json", YAbsent, YAbsent, payload, <<>>)

\* Path.exists() and the content of the file
FileAt(fsys, path) == IF path \in DOMAIN fsys THEN fsys[path] ELSE NoFile

\* what load_yaml gives: the exception raised ("" when it returned), whether
\* the loaded value is a mapping or a string, and the two fields of a mapping
Loaded(exc, kind, version, appVersion) ==
    [exc |-> exc, kind |-> kind, version |-> version, appVersion |-> appVersion]

\* key=value lines alone load as one plain scalar, unless a line holds the
\* JSON of parent_chart_update, whose ': ' ends the scalar
LinesAreScalar(outputs) ==
    \A k \in 1..Len(outputs) : ~outputs[k].parent_chart_update.present

\* load_yaml(path): an empty file loads as {}, the JSON payload as a mapping
\* without version and appVersion, and content followed by key=value lines
\* is not a YAML document
load_yaml(file) ==
    IF ~file.exists THEN Loaded("MissingMetadataFile", "", YAbsent, YAbsent)
    ELSE IF file.outputs # <<>>
         THEN IF file.body = "" /\ LinesAreScalar(file.outputs)
              THEN Loaded("", "str", YAbsent, YAbsent)
              ELSE Loaded("YAMLError", "", YAbsent, YAbsent)
    ELSE IF file.body = "yaml" THEN Loaded("", "map", file.version, file.appVersion)
    ELSE Loaded("", "map", YAbsent, YAbsent)

(***************************************************************************)
(* update_chart.                                                           *)
(***************************************************************************)
NoResult ==
    [old_app_version |-> <<>>, new_app_version |-> <<>>,
     old_chart_version |-> <<>>, new_chart_version |-> <<>>,
     release_type |-> "", chart_modified |-> FALSE]

\* what a call of update_chart leaves: the files, the exception raised
\* ("" when it returned) and the ChartUpdateResult
Outcome(fsys, exc, result) == [fs |-> fsys, exc |-> exc, result |-> result]

\* ensure_chart_version: "" or the error it raises
ensure_chart_version(chart) ==
    IF chart.version.kind # "str" THEN "MissingVersionField" ELSE ""

\* the ChartUpdateResult of lines 153-160
Result(chart, new_version, new_chart_version, effective_release_type) ==
    [old_app_version |-> DictGet(chart.appVersion).s,
     new_app_version |-> new_version,
     old_chart_version |-> chart.version.s,
     new_chart_version |-> new_chart_version,
     release_type |-> effective_release_type,
     chart_modified |-> effective_release_type # "none"]

\* a wrong write: appVersion is set whether or not the document had the key
written_chart_always_app(chart, new_version, new_chart_version) ==
    ChartFile(YStr(new_chart_version), YStr(new_version))

\* a wrong write: the version is bumped and appVersion is left as it was
written_chart_keep_app(chart, new_version, new_chart_version) ==
    ChartFile(YStr(new_chart_version), chart.appVersion)

\* the mapping handed to dump_yaml (lines 145-148)
written_chart(chart, new_version, new_chart_version) ==
    ChartFile(YStr(new_chart_version),
              IF chart.appVersion.kind # "absent" THEN YStr(new_version) ELSE chart.appVersion)

\* a wrong order: the document is written with its new appVersion before the
\* bumped version is computed
write_bumped_early(fsys, chart_path, chart, new_version, effective_release_type, bumped) ==
    IF bumped.exc # ""
    THEN Outcome([fsys EXCEPT ![chart_path] =
                      written_chart(chart, new_version, chart.version.s)],
                 bumped.exc, NoResult)
    ELSE Outcome([fsys EXCEPT ![chart_path] = written_chart(chart, new_version, bumped.text)],
                 "", Result(chart, new_version, bumped.text, effective_release_type))

\* lines 147-149: bumped is bump_semver(old_chart_version, effective_release_type),
\* which raises before dump_yaml is reached
write_bumped(fsys, chart_path, chart, new_version, effective_release_type, bumped) ==
    IF bumped.exc # "" THEN Outcome(fsys, bumped.exc, NoResult)
    ELSE Outcome([fsys EXCEPT ![chart_path] = written_chart(chart, new_version, bumped.text)],
                 "", Result(chart, new_version, bumped.text, effective_release_type))

\* a wrong branch: the 'none' case is bumped and written like a patch
apply_release_type_none_writes(fsys, chart_path, chart, new_version, eff) ==
    IF eff.exc # "" THEN Outcome(fsys, eff.exc, NoResult)
    ELSE write_bumped(fsys, chart_path, chart, new_version, eff.rtype,
                      bump_semver(chart.version.s,
                                  IF eff.rtype = "none" THEN "patch" ELSE eff.rtype))

\* lines 142-151: eff is the effective release type or the exception of the
\* classifier
apply_release_type(fsys, chart_path, chart, new_version, eff) ==
    IF eff.exc # "" THEN Outcome(fsys, eff.exc, NoResult)
    ELSE IF eff.rtype = "none"
         THEN Outcome(fsys, "", Result(chart, new_version, chart.version.s, eff.rtype))
    ELSE write_bumped(fsys, chart_path, chart, new_version, eff.rtype,
                      bump_semver(chart.version.s, eff.rtype))

\* lines 136-140: parsed is extract_semver(new_version)
resolve_release_type(fsys, chart_path, chart, new_version, parsed, release_type) ==
    IF ~parsed.ok THEN Outcome(fsys, "NoSemverFound", NoResult)
    ELSE apply_release_type(fsys, chart_path, chart, new_version,
                            IF release_type = "auto"
                            THEN determine_release_type(DictGet(chart.appVersion), parsed.tuple)
                            ELSE Returned(release_type))

\* lines 132-134: chart is what load_yaml gave for chart_path; chart.get of a
\* loaded string raises AttributeError
update_loaded(fsys, chart_path, chart, new_version, release_type) ==
    IF chart.exc # "" THEN Outcome(fsys, chart.exc, NoResult)
    ELSE IF chart.kind # "map" THEN Outcome(fsys, "AttributeError", NoResult)
    ELSE IF ensure_chart_version(chart) # ""
         THEN Outcome(fsys, ensure_chart_version(chart), NoResult)
    ELSE resolve_release_type(fsys, chart_path, chart, new_version,
                              extract_semver(new_version), release_type)

\* update_chart(chart_path, new_version, release_type) run on the files fsys
update_chart(fsys, chart_path, new_version, release_type) ==
    update_loaded(fsys, chart_path, load_yaml(FileAt(fsys, chart_path)),
                  new_version, release_type)

(***************************************************************************)
(* compute_branch_name.                                                    *)
(***************************************************************************)
UpperChars ==
    <<"A", "B", "C", "D", "E", "F", "G", "H", "I", "J", "K", "L", "M",
      "N", "O", "P", "Q", "R", "S", "T", "U", "V", "W", "X", "Y", "Z">>

LowerChars ==
    <<"a", "b", "c", "d", "e", "f", "g", "h", "i", "j", "k", "l", "m",
      "n", "o", "p", "q", "r", "s", "t", "u", "v", "w", "x", "y", "z">>

\* the characters [a-z0-9] matches
SlugChars == {LowerChars[k] : k \in 1..26} \cup {AsciiDigits[k] : k \in 1..10}

\* c.lower() with every character that [^a-z0-9] matches written as "-":
\* besides A-Z, the Kelvin sign lowers to k and the dotted capital I to i
\* followed by a combining dot
LowerMarked(c) ==
    IF c \in SlugChars THEN <<c>>
    ELSE IF \E k \in 1..26 : UpperChars[k] = c
         THEN <<LowerChars[CHOOSE k \in 1..26 : UpperChars[k] = c]>>
    ELSE IF c = "U+212A" THEN <<"k">>
    ELSE IF c = "U+0130" THEN <<"i", "-">>
    ELSE <<"-">>

\* re.sub(r"[^a-z0-9]+", "-", app_name.lower()): every run of characters
\* outside a-z0-9 becomes one "-"
RECURSIVE SlugSub(_, _)
SlugSub(s, in_run) ==
    IF s = <<>> THEN <<>>
    ELSE IF LowerMarked(s[1]) = <<"-">>
         THEN (IF in_run THEN <<>> ELSE <<"-">>) \o SlugSub(Tail(s), TRUE)
    ELSE IF LowerMarked(s[1]) = <<"i", "-">>
         THEN <<"i", "-">> \o SlugSub(Tail(s), TRUE)
    ELSE LowerMarked(s[1]) \o SlugSub(Tail(s), FALSE)

\* line 190
Slug(app_name) ==
    IF StripChars(SlugSub(app_name, FALSE), {"-"}) = <<>> THEN <<"a", "p", "p">>
    ELSE StripChars(SlugSub(app_name, FALSE), {"-"})

\* lines 183-188: tag is extract_semver(release_tag or "")
branch_version(stripped, tag) ==
    IF stripped # <<>> THEN stripped
    ELSE IF tag.ok THEN tag.text
    ELSE <<"l", "a", "t", "e", "s", "t">>

\* app_version and release_tag are "" for None
compute_branch_name(app_name, app_version, release_tag) ==
    <<"u", "p", "d", "a", "t", "e", "-">> \o Slug(app_name) \o <<"-">>
        \o branch_version(Strip(app_version), extract_semver(release_tag))

(***************************************************************************)
(* handle_update and main.                                                 *)
(***************************************************************************)
\* what the update_chart calls of one run leave: the version taken from the
\* tag, whether update_chart was reached, the files after the primary update
\* (mid) and after the parent update (upd), the exception that ended the
\* run, the two ChartUpdateResults and parent_update and has_changes
\* computed from them
Run(new_version, primary_called, mid, upd, exc, result, parent_called, parent_exc, parent_result) ==
    [new_version |-> new_version, primary_called |-> primary_called,
     mid |-> mid, upd |-> upd, exc |-> exc, result |-> result,
     parent_called |-> parent_called, parent_exc |-> parent_exc,
     parent_result |-> parent_result,
     parent_update |-> IF parent_result.chart_modified
                       THEN [present |-> TRUE,
                             path |-> parent_result.path,
                             old_version |-> parent_result.old_chart_version,
                             new_version |-> parent_result.new_chart_version]
                       ELSE NoParentUpdate,
     has_changes |-> result.chart_modified \/ parent_result.chart_modified]

NoParentResult == [NoResult EXCEPT !.release_type = ""] @@ [path |-> <<>>]

\* lines 210-215: parent is the outcome of the parent's update_chart
after_parent(primary, parent, parent_chart_file) ==
    IF parent.exc # ""
    THEN Run(primary.result.new_app_version, TRUE, primary.fs, parent.fs, parent.exc,
             primary.result, TRUE, parent.exc, NoParentResult)
    ELSE Run(primary.result.new_app_version, TRUE, primary.fs, parent.fs, "",
             primary.result, TRUE, "", parent.result @@ [path |-> parent_chart_file])

\* a wrong flow: a failed parent update restores the primary document
after_parent_rollback(fsys, primary, parent, parent_chart_file) ==
    IF parent.exc # ""
    THEN Run(primary.result.new_app_version, TRUE, primary.fs, fsys, parent.exc,
             primary.result, TRUE, parent.exc, NoParentResult)
    ELSE Run(primary.result.new_app_version, TRUE, primary.fs, parent.fs, "",
             primary.result, TRUE, "", parent.result @@ [path |-> parent_chart_file])

after_primary_rollback(fsys, primary, new_version, parent_chart_file) ==
    IF primary.exc # ""
    THEN Run(new_version, TRUE, fsys, fsys, primary.exc, NoResult, FALSE, "", NoParentResult)
    ELSE IF parent_chart_file # <<>> /\ primary.result.release_type # "none"
    THEN after_parent_rollback(fsys, primary,
                               update_chart(primary.fs, parent_chart_file, new_version,
                                            primary.result.release_type),
                               parent_chart_file)
    ELSE Run(new_version, TRUE, primary.fs, primary.fs, "", primary.result,
             FALSE, "", NoParentResult)

\* a wrong flow: the parent is classified against its own appVersion
after_primary_reclassify(fsys, primary, new_version, parent_chart_file) ==
    IF primary.exc # ""
    THEN Run(new_version, TRUE, fsys, fsys, primary.exc, NoResult, FALSE, "", NoParentResult)
    ELSE IF parent_chart_file # <<>> /\ primary.result.release_type # "none"
    THEN after_parent(primary,
                      update_chart(primary.fs, parent_chart_file, new_version, "auto"),
                      parent_chart_file)
    ELSE Run(new_version, TRUE, primary.fs, primary.fs, "", primary.result,
             FALSE, "", NoParentResult)

\* lines 202-209: primary is the outcome of update_chart(chart_path, new_version, "auto")
after_primary(fsys, primary, new_version, parent_chart_file) ==
    IF primary.exc # ""
    THEN Run(new_version, TRUE, fsys, fsys, primary.exc, NoResult, FALSE, "", NoParentResult)
    ELSE IF parent_chart_file # <<>> /\ primary.result.release_type # "none"
    THEN after_parent(primary,
                      update_chart(primary.fs, parent_chart_file, new_version,
                                   primary.result.release_type),
                      parent_chart_file)
    ELSE Run(new_version, TRUE, primary.fs, primary.fs, "", primary.result,
             FALSE, "", NoParentResult)

\* lines 198-200: tag is extract_semver(args.release_tag)
after_tag(fsys, tag, chart_file, parent_chart_file) ==
    IF ~tag.ok
    THEN Run(<<>>, FALSE, fsys, fsys, "NoSemverFound", NoResult, FALSE, "", NoParentResult)
    ELSE after_primary(fsys, update_chart(fsys, chart_file, tag.text, "auto"),
                       tag.text, parent_chart_file)

\* lines 217-221
branch_name_of(app_name, new_app_version, release_tag) ==
    IF app_name = <<>> THEN <<>>
    ELSE compute_branch_name(app_name, new_app_version, release_tag)

\* lines 225-235
result_payload(r, branch_name) ==
    Payload(r.result.old_app_version, r.result.new_app_version,
            r.result.old_chart_version, r.result.new_chart_version,
            r.result.release_type, r.result.chart_modified,
            r.parent_update, branch_name, r.has_changes)

\* lines 237-241: the file is replaced by the JSON payload
write_result_file(fsys, result_file, payload) ==
    IF result_file = <<>> THEN fsys
    ELSE (result_file :> ResultFile(payload)) @@ fsys

\* the serialization of a bool in write_github_output
BoolText(b) == IF b THEN <<"t", "r", "u", "e">> ELSE <<"f", "a", "l", "s", "e">>

\* the key=value lines of one write_github_output, in the order written; the
\* line of parent_chart_update holds its JSON and is left out for None
OutputLines(payload) ==
    [new_app_version |-> payload.new_app_version,
     release_type |-> payload.release_type,
     new_chart_version |-> payload.new_chart_version,
     parent_chart_update |-> payload.parent_chart_update,
     chart_modified |-> BoolText(payload.chart_modified),
     branch_name |-> payload.branch_name,
     has_changes |-> BoolText(payload.has_changes)]

\* write_github_output(path, payload): the lines are appended to the file,
\* which is created when it does not exist
write_github_output(fsys, path, payload) ==
    IF path = <<>> THEN fsys
    ELSE (path :> [FileAt(fsys, path) EXCEPT !.exists = TRUE,
                                             !.outputs = Append(@, OutputLines(payload))])
         @@ fsys

\* lines 237-256, once the payload is built
emit_payload(r, payload, result_file, github_output) ==
    r @@ [payload |-> payload,
          final |-> write_github_output(write_result_file(r.upd, result_file, payload),
                                        github_output, payload)]

\* lines 217-258: nothing is written when an update raised
emit(r, release_tag, result_file, app_name, github_output) ==
    IF r.exc # "" THEN r @@ [payload |-> NoPayload, final |-> r.upd]
    ELSE emit_payload(r, result_payload(r, branch_name_of(app_name, r.result.new_app_version,
                                                          release_tag)),
                      result_file, github_output)

\* handle_update(args) run on the files fsys
handle_update(fsys, release_tag, chart_file, parent_chart_file_arg, result_file, app_name, github_output) ==
    emit(after_tag(fsys, extract_semver(release_tag), chart_file, Strip(parent_chart_file_arg)),
         release_tag, result_file, app_name, github_output)

\* lines 277-281: 0 when handle_update returns, 1 when it raises
\* ChartUpdateError; any other exception is not caught and the interpreter
\* ends with status 1
exit_of(r) ==
    r @@ [exit |-> IF r.exc = "" THEN 0 ELSE 1,
          diagnostic |-> r.exc \in ChartUpdateErrors]

main(fsys, release_tag, chart_file, parent_chart_file_arg, result_file, app_name, github_output) ==
    exit_of(handle_update(fsys, release_tag, chart_file, parent_chart_file_arg,
                          result_file, app_name, github_output))

(***************************************************************************)
(* A call of one of the pure functions: its arguments and what it gave.    *)
(***************************************************************************)
Pending == Ret("pending", <<>>, <<0, 0, 0>>, "")

PureCall(fn, src, old, new, rt, tag) ==
    [fn |-> fn, src |-> src, old |-> old, new |-> new, rt |-> rt, tag |-> tag,
     done |-> FALSE, ret |-> Pending]

NoCall == PureCall("", <<>>, YNull, <<0, 0, 0>>, "", <<>>)

(***************************************************************************)
(* The tool run in a directory of four paths.                              *)
(***************************************************************************)
Paths == {<<"c">>, <<"p">>, <<"r">>, <<"o">>}

\* the path handed over as --chart-file
ChartPath == <<"c">>

\* the path of the parent chart
ParentPath == <<"p">>

\* a path for --result-file
ResultPath == <<"r">>

\* a path for --github-output
OutputPath == <<"o">>

PlainVersion == <<"0", ".", "1", ".", "0">>

\* documents the primary path may hold before the first run
PrimaryFiles ==
    { NoFile,
      EmptyFile,
      ChartFile(YStr(PlainVersion), YAbsent),
      ChartFile(YStr(PlainVersion), YNull),
      ChartFile(YStr(PlainVersion), YNum),
      ChartFile(YStr(PlainVersion), YZero),
      ChartFile(YStr(PlainVersion), YStr(<<>>)),
      ChartFile(YStr(PlainVersion), YStr(<<"d", "e", "v">>)),
      ChartFile(YStr(PlainVersion), YStr(<<"1", ".", "0", ".", "0">>)),
      ChartFile(YStr(<<"0", "1", ".", "2", ".", "3", "-", "r", "c">>),
                YStr(<<"v", "1", ".", "0", ".", "0">>)),
      ChartFile(YNum, YStr(<<"1", ".", "0", ".", "0">>)),
      ChartFile(YStr(<<"d", "e", "v">>), YStr(<<"1", ".", "0", ".", "0">>)) }

\* documents the parent path may hold before the first run
ParentFiles ==
    { NoFile,
      ChartFile(YAbsent, YAbsent),
      ChartFile(YStr(<<"0", ".", "3", ".", "1">>), YAbsent),
      ChartFile(YStr(<<"0", ".", "3", ".", "1">>), YStr(<<"1", ".", "1", ".", "0">>)),
      ChartFile(YStr(<<"d", "e", "v">>), YStr(<<"1", ".", "1", ".", "0">>)) }

\* values of --release-tag
Tags ==
    { <<"v", "1", ".", "0", ".", "0">>,
      <<"1", ".", "0", ".", "1">>,
      <<"a", "p", "p", "-", "1", ".", "1", ".", "0">>,
      <<"v", "2", ".", "0", ".", "0", "+", "b">>,
      <<"0", ".", "9", ".", "0">>,
      <<"d", "e", "v">> }

\* values of --release-tag in the runs that write their outputs
OutputTags == { <<"v", "1", ".", "0", ".", "0">>, <<"1", ".", "0", ".", "1">> }

\* new_version of a lone update_chart
NewVersions == { <<"v", "1", ".", "0", ".", "1">>, <<"d", "e", "v">> }

\* release_type of a lone update_chart
LoneReleaseTypes == {"auto", "minor", "none", "hotfix"}

\* values of --parent-chart-file
ParentArgs == { <<>>, <<" ", "\t">>, <<"\t", "p", "\n">>, <<"c">> }

\* values of --app-name
AppNames == { <<>>, <<"M", "y", " ", "A", "p", "p">>, <<"_", "U+212A", "8", "s", "!", "?">> }

\* values of --parent-chart-file, --result-file, --app-name and
\* --github-output in the runs that write their outputs: into files of their
\* own, or over a metadata document
Outputs ==
    { << <<" ", "p">>, ResultPath, <<"M", "y", " ", "A", "p", "p">>, OutputPath >>,
      << <<>>, ChartPath, <<>>, <<>> >>,
      << <<>>, <<>>, <<>>, ChartPath >>,
      << <<>>, <<>>, <<>>, ParentPath >> }

NoLast ==
    [op |-> "", tag |-> <<>>, chart |-> <<>>, parent |-> <<>>, rtype |-> "",
     result_file |-> <<>>, app_name |-> <<>>, github_output |-> <<>>,
     pre |-> [p \in {} |-> NoFile]]
    @@ Run(<<>>, FALSE, [p \in {} |-> NoFile], [p \in {} |-> NoFile], "", NoResult,
           FALSE, "", NoParentResult)
    @@ [payload |-> NoPayload, final |-> [p \in {} |-> NoFile]]
    @@ [exit |-> 0, diagnostic |-> FALSE]

Init ==
    /\ \E c \in PrimaryFiles, p \in ParentFiles :
           fs = [q \in Paths |-> IF q = ChartPath THEN c
                                 ELSE IF q = ParentPath THEN p ELSE NoFile]
    /\ last = NoLast
    /\ call = NoCall
    /\ runs = 0

\* one run of the script: python update_helm_chart.py --release-tag ...
Main(release_tag, chart_file, parent_chart_file_arg, result_file, app_name, github_output) ==
    /\ runs < MaxRuns
    /\ last' = [op |-> "main", tag |-> release_tag, chart |-> chart_file,
                parent |-> parent_chart_file_arg, rtype |-> "auto",
                result_file |-> result_file, app_name |-> app_name,
                github_output |-> github_output, pre |-> fs]
               @@ main(fs, release_tag, chart_file, parent_chart_file_arg,
                       result_file, app_name, github_output)
    /\ fs' = last'.final
    /\ runs' = runs + 1
    /\ UNCHANGED call

\* the outcome of a lone update_chart in the shape of a run
lone(new_version, r) ==
    Run(new_version, TRUE, r.fs, r.fs, r.exc, r.result, FALSE, "", NoParentResult)
    @@ [payload |-> NoPayload, final |-> r.fs]
    @@ [exit |-> 0, diagnostic |-> FALSE]

\* update_chart called on its own
UpdateChart(chart_path, new_version, release_type) ==
    /\ runs < MaxRuns
    /\ last' = [op |-> "update_chart", tag |-> new_version, chart |-> chart_path,
                parent |-> <<>>, rtype |-> release_type,
                result_file |-> <<>>, app_name |-> <<>>, github_output |-> <<>>,
                pre |-> fs]
               @@ lone(new_version, update_chart(fs, chart_path, new_version, release_type))
    /\ fs' = last'.final
    /\ runs' = runs + 1
    /\ UNCHANGED call

Next ==
    \/ \E t \in Tags, p \in ParentArgs : Main(t, ChartPath, p, <<>>, <<>>, <<>>)
    \/ \E t \in OutputTags, x \in Outputs : Main(t, ChartPath, x[1], x[2], x[3], x[4])
    \/ \E v \in NewVersions, r \in LoneReleaseTypes : UpdateChart(ChartPath, v, r)

Spec == Init /\ [][Next]_vars

(***************************************************************************)
(* Inputs of the pure functions.                                           *)
(***************************************************************************)
\* ASCII digits, the dot, a letter and the Arabic-Indic digit three
Alphabet == {"0", "1", ".", "v", "U+0663"}

Triples == (0..MaxV) \X (0..MaxV) \X (0..MaxV)

\* app_version of compute_branch_name
BranchVersions == { <<>>, <<" ">>, <<" ", "1", ".", "0", ".", "1", "\n">> }

(***************************************************************************)
(* The pure functions applied to drawn inputs.                             *)
(***************************************************************************)
InitPure ==
    /\ \/ \E k \in 0..MaxLen : \E s \in [1..k -> Alphabet] :
              call = PureCall("extract_semver", s, YNull, <<0, 0, 0>>, "", <<>>)
       \/ \E k \in 0..MaxVerLen : \E s \in [1..k -> Alphabet] : \E n \in Triples :
              call = PureCall("determine_release_type", <<>>, YStr(s), n, "", <<>>)
       \/ \E o \in {YNull, YNum, YZero, YTrue, YFalse} : \E n \in Triples :
              call = PureCall("determine_release_type", <<>>, o, n, "", <<>>)
       \/ \E k \in 0..MaxVerLen : \E s \in [1..k -> Alphabet] : \E r \in ReleaseTypeArgs :
              call = PureCall("bump_semver", s, YNull, <<0, 0, 0>>, r, <<>>)
       \/ \E a \in AppNames, v \in BranchVersions, t \in Tags :
              call = PureCall("compute_branch_name", a, YStr(v), <<0, 0, 0>>, "", t)
    /\ fs = [p \in {} |-> NoFile]
    /\ last = NoLast
    /\ runs = 0

ApplyExtractSemver ==
    /\ call.fn = "extract_semver" /\ ~call.done
    /\ LET r == extract_semver(call.src) IN
       call' = [call EXCEPT !.done = TRUE,
                            !.ret = IF r.ok THEN Ret("", r.text, r.tuple, "")
                                    ELSE Ret("NoSemverFound", <<>>, <<0, 0, 0>>, "")]
    /\ UNCHANGED <<fs, last, runs>>

ApplyDetermineReleaseType ==
    /\ call.fn = "determine_release_type" /\ ~call.done
    /\ call' = [call EXCEPT !.done = TRUE,
                            !.ret = determine_release_type(call.old, call.new)]
    /\ UNCHANGED <<fs, last, runs>>

ApplyBumpSemver ==
    /\ call.fn = "bump_semver" /\ ~call.done
    /\ call' = [call EXCEPT !.done = TRUE, !.ret = bump_semver(call.src, call.rt)]
    /\ UNCHANGED <<fs, last, runs>>

ApplyComputeBranchName ==
    /\ call.fn = "compute_branch_name" /\ ~call.done
    /\ call' = [call EXCEPT !.done = TRUE,
                            !.ret = Ret("", compute_branch_name(call.src, call.old.s, call.tag),
                                        <<0, 0, 0>>, "")]
    /\ UNCHANGED <<fs, last, runs>>

NextPure ==
    \/ ApplyExtractSemver
    \/ ApplyDetermineReleaseType
    \/ ApplyBumpSemver
    \/ ApplyComputeBranchName

SpecPure == InitPure /\ [][NextPure]_vars

(***************************************************************************)
(* Vocabulary of the properties, stated without the scan of the model.     *)
(***************************************************************************)
\* the components of a triple, in order
ReleaseNames == <<"major", "minor", "patch">>

\* a lexicographically before b
LexLess(a, b) == \E i \in 1..3 : a[i] < b[i] /\ \A j \in 1..(i - 1) : a[j] = b[j]

\* index of the first component in which a and b differ
FirstDiff(a, b) == CHOOSE i \in 1..3 : a[i] # b[i] /\ \A j \in 1..(i - 1) : a[j] = b[j]

AllDigits(t) == t # <<>> /\ \A k \in 1..Len(t) : IsDigit(t[k])

\* the decimal text of a non-negative integer: the digits 0-9, no leading zero
IsNumberText(t) ==
    /\ t # <<>>
    /\ \A k \in 1..Len(t) : t[k] \in {"0", "1", "2", "3", "4", "5", "6", "7", "8", "9"}
    /\ Len(t) = 1 \/ t[1] # "0"

\* t has the shape digits.digits.digits
IsSemverShape(t) ==
    \E p, q \in 1..Len(t) :
        /\ p < q /\ t[p] = "." /\ t[q] = "."
        /\ AllDigits(SubSeq(t, 1, p - 1))
        /\ AllDigits(SubSeq(t, p + 1, q - 1))
        /\ AllDigits(SubSeq(t, q + 1, Len(t)))

\* some substring of s has the shape digits.digits.digits
ContainsSemver(s) ==
    \E i, j \in 1..Len(s) : i <= j /\ IsSemverShape(SubSeq(s, i, j))

\* t is "<a>.<b>.<c>" for some non-negative integers a, b, c
IsTripleText(t) ==
    \E p, q \in 1..Len(t) :
        /\ p < q /\ t[p] = "." /\ t[q] = "."
        /\ IsNumberText(SubSeq(t, 1, p - 1))
        /\ IsNumberText(SubSeq(t, p + 1, q - 1))
        /\ IsNumberText(SubSeq(t, q + 1, Len(t)))

\* s[i..j] is the leftmost substring of s of the semver shape, taken to the
\* end of its last digit run
IsFirstSemver(s, i, j) ==
    /\ IsSemverShape(SubSeq(s, i, j))
    /\ j = Len(s) \/ ~IsDigit(s[j + 1])
    /\ \A k \in 1..(i - 1) : \A m \in k..Len(s) : ~IsSemverShape(SubSeq(s, k, m))

ExtractDone == call.fn = "extract_semver" /\ call.done
ClassifyDone == call.fn = "determine_release_type" /\ call.done
BumpDone == call.fn = "bump_semver" /\ call.done

(***************************************************************************)
(* C1: determine_release_type against a parsable old version: a new triple *)
(* below the old one raises the downgrade error, an equal one gives        *)
(* 'none', a greater one gives the name of the first differing component.  *)
(***************************************************************************)
C1_Classifier ==
    (ClassifyDone /\ call.old.kind = "str" /\ ContainsSemver(call.old.s)) =>
        LET o == extract_semver(call.old.s).tuple
            n == call.new
        IN  /\ LexLess(n, o) => call.ret.exc = "DowngradeRejected"
            /\ n = o => (call.ret.exc = "" /\ call.ret.rtype = "none")
            /\ LexLess(o, n) =>
                   (call.ret.exc = "" /\ call.ret.rtype = ReleaseNames[FirstDiff(o, n)])

\* a minor release was classified: major equal, minor raised, patch lowered
C1_Witness ==
    /\ ClassifyDone /\ call.old = YStr(<<"1", ".", "0", ".", "1">>)
    /\ call.new = <<1, 1, 0>>
    /\ call.ret.rtype = "minor"

(***************************************************************************)
(* C2: bump_semver on a version holding the triple (major, minor, patch):  *)
(* 'major' gives (major+1).0.0, 'minor' major.(minor+1).0, 'patch'         *)
(* major.minor.(patch+1); any other release type raises the                *)
(* unsupported-release-type error and returns nothing.                     *)
(***************************************************************************)
C2_Bumper ==
    (BumpDone /\ ContainsSemver(call.src)) =>
        LET t == extract_semver(call.src).tuple IN
        /\ call.rt = "major" =>
               call.ret = Ret("", FormatTriple(t[1] + 1, 0, 0), <<0, 0, 0>>, "")
        /\ call.rt = "minor" =>
               call.ret = Ret("", FormatTriple(t[1], t[2] + 1, 0), <<0, 0, 0>>, "")
        /\ call.rt = "patch" =>
               call.ret = Ret("", FormatTriple(t[1], t[2], t[3] + 1), <<0, 0, 0>>, "")
        /\ call.rt \notin {"major", "minor", "patch"} =>
               call.ret = Ret("UnsupportedReleaseType", <<>>, <<0, 0, 0>>, "")

\* a minor bump that had a patch component to reset
C2_Witness ==
    /\ BumpDone /\ call.rt = "minor"
    /\ call.src = <<"1", ".", "0", ".", "1">>
    /\ call.ret.text = <<"1", ".", "1", ".", "0">>

(***************************************************************************)
(* C9 as claimed: whenever the text "<a>.<b>.<c>" occurs anywhere in the   *)
(* input, extract_semver returns exactly (a, b, c).                        *)
(***************************************************************************)
C9_AnyOccurrence ==
    ExtractDone =>
        \A i, j \in 1..Len(call.src) :
            (i <= j /\ IsTripleText(SubSeq(call.src, i, j))) =>
                /\ call.ret.exc = ""
                /\ FormatTriple(call.ret.tuple[1], call.ret.tuple[2], call.ret.tuple[3])
                       = SubSeq(call.src, i, j)

(***************************************************************************)
(* C9 amended: when the leftmost substring of the shape                    *)
(* digits.digits.digits, taken to the end of its last digit run, is the    *)
(* text "<a>.<b>.<c>", extract_semver returns exactly (a, b, c) and that   *)
(* text.                                                                   *)
(***************************************************************************)
C9_FirstOccurrence ==
    ExtractDone =>
        \A i, j \in 1..Len(call.src) :
            (i <= j /\ IsFirstSemver(call.src, i, j) /\ IsTripleText(SubSeq(call.src, i, j))) =>
                /\ call.ret.exc = ""
                /\ call.ret.text = SubSeq(call.src, i, j)
                /\ FormatTriple(call.ret.tuple[1], call.ret.tuple[2], call.ret.tuple[3])
                       = SubSeq(call.src, i, j)

\* a tag with a prefix whose first semver is a triple text, extracted
C9_Witness ==
    /\ ExtractDone /\ call.src = <<"v", "1", ".", "0", ".", "1">>
    /\ call.ret.exc = "" /\ call.ret.tuple = <<1, 0, 1>>

(***************************************************************************)
(* The calls of update_chart of the last run, each with the files before   *)
(* and after it.                                                           *)
(***************************************************************************)
IsMain == last.op = "main"

\* the parent argument names a path: it holds something besides white space
ParentSupplied(l) == \E i \in 1..Len(l.parent) : l.parent[i] \notin WhitespaceChars

\* the path the parent argument names
ParentOf(l) == CHOOSE q \in Paths \cup {<<>>} :
                   \/ q = <<>> /\ ~ParentSupplied(l)
                   \/ q # <<>> /\ \E i \in 1..Len(l.parent) :
                                     SubSeq(l.parent, i, i + Len(q) - 1) = q

CallRec(path, nv, rtype, before, after, exc, result) ==
    [path |-> path, nv |-> nv, rtype |-> rtype, before |-> before, after |-> after,
     exc |-> exc, result |-> result]

\* the first update_chart of the run l
PrimaryCall(l) ==
    CallRec(l.chart, l.new_version, l.rtype, l.pre, l.mid,
            IF l.parent_called THEN "" ELSE l.exc, l.result)

\* the update_chart of the parent document
ParentCall(l) ==
    CallRec(ParentOf(l), l.new_version, l.result.release_type, l.mid, l.upd, l.parent_exc,
            [k \in DOMAIN NoResult |-> l.parent_result[k]])

Calls ==
    (IF last.op # "" /\ last.primary_called THEN {PrimaryCall(last)} ELSE {})
    \cup (IF last.parent_called THEN {ParentCall(last)} ELSE {})

\* the triple of a field value that holds a semver
TripleOf(v) == extract_semver(v.s).tuple

HoldsSemver(v) == v.kind = "str" /\ ContainsSemver(v.s)

\* the file holds a YAML mapping and nothing after it
IsChartDoc(f) == f.exists /\ f.body = "yaml" /\ f.outputs = <<>>

\* the paths the run l was not told to write its outputs to
NotOutput(l) == Paths \ {l.result_file, l.github_output}

(***************************************************************************)
(* C3 as claimed: after a successful update_chart(path, v, auto), the same *)
(* call on the resulting document returns release_type 'none' and          *)
(* chart_modified false and leaves the document as it is, whatever the     *)
(* document.                                                               *)
(***************************************************************************)
\* l2 repeats the update_chart(path, v, auto) that returned in l1, on the
\* document that call left
Rerun(l1, l2) ==
    /\ l1.op # "" /\ l1.primary_called /\ l1.rtype = "auto"
    /\ PrimaryCall(l1).exc = ""
    /\ l2.op # "" /\ l2.primary_called /\ l2.rtype = "auto"
    /\ l2.chart = l1.chart /\ l2.new_version = l1.new_version
    /\ FileAt(l2.pre, l2.chart) = FileAt(l1.mid, l1.chart)

RerunIsNoOp(l2) ==
    /\ PrimaryCall(l2).exc = ""
    /\ l2.result.release_type = "none"
    /\ l2.result.chart_modified = FALSE
    /\ l2.mid = l2.pre

C3_IdempotentAnyDocument ==
    [][Rerun(last, last') => RerunIsNoOp(last')]_vars

(***************************************************************************)
(* C3 amended: after a successful update_chart(path, v, auto) on a         *)
(* document that has an appVersion field, the same call on the resulting   *)
(* document returns release_type 'none' and chart_modified false and       *)
(* leaves the document as it is.                                           *)
(***************************************************************************)
C3_IdempotentWithAppVersion ==
    [][(Rerun(last, last')
        /\ FileAt(last.pre, last.chart).appVersion.kind # "absent")
          => RerunIsNoOp(last')]_vars

\* a second run found the document already at the version of its tag, which
\* no document holds before the first run
C3_Witness ==
    /\ runs = 2 /\ IsMain /\ last.primary_called
    /\ last.new_version = <<"1", ".", "0", ".", "1">>
    /\ FileAt(last.pre, last.chart).appVersion = YStr(last.new_version)
    /\ last.result.release_type = "none" /\ ~last.result.chart_modified
    /\ fs = last.pre

(***************************************************************************)
(* C4: a call of update_chart that raises leaves the document it was       *)
(* called on as it was on disk, and a run of main in which it happens ends *)
(* with exit code 1.                                                       *)
(***************************************************************************)
C4_FailureLeavesDocument ==
    \A k \in Calls :
        k.exc # "" =>
            /\ FileAt(k.after, k.path) = FileAt(k.before, k.path)
            /\ IsMain => last.exit = 1

\* the version could not be bumped after appVersion was set in memory
C4_Witness ==
    /\ IsMain /\ last.primary_called /\ ~last.parent_called
    /\ last.exc = "NoSemverFound" /\ last.exit = 1
    /\ FileAt(last.pre, last.chart).appVersion.kind = "str"
    /\ fs = last.pre

(***************************************************************************)
(* C5: in a run of main whose primary update returned, update_chart runs   *)
(* on the parent exactly when a parent path was given and the primary's    *)
(* release type is not 'none'; the classifier is not run on the parent, so *)
(* its own appVersion neither fails the call nor changes the type; when    *)
(* the call returns, the parent's version on disk is bump_semver(its old   *)
(* version, the primary's release type); without the call the parent       *)
(* document is not touched.                                                *)
(***************************************************************************)
C5_ParentCascade ==
    (IsMain /\ last.primary_called /\ PrimaryCall(last).exc = "") =>
        /\ last.parent_called <=>
               (ParentSupplied(last) /\ last.result.release_type # "none")
        /\ ~last.parent_called => last.upd = last.mid
        /\ last.parent_called =>
               last.parent_exc \notin {"DowngradeRejected", "TypeError", "UnsupportedReleaseType"}
        /\ (last.parent_called /\ last.parent_exc = "") =>
               LET before == FileAt(last.mid, ParentOf(last))
                   bumped == bump_semver(before.version.s, last.result.release_type)
               IN  /\ last.parent_result.release_type = last.result.release_type
                   /\ last.parent_result.old_chart_version = before.version.s
                   /\ last.parent_result.new_chart_version = bumped.text
                   /\ FileAt(last.upd, ParentOf(last)).version = YStr(bumped.text)
                   /\ last.parent_update.present
                   /\ last.parent_update.new_version = bumped.text

\* a patch release cascaded to a parent whose appVersion was ahead of the tag
C5_Witness ==
    /\ IsMain /\ last.parent_called /\ last.parent_exc = ""
    /\ last.result.release_type = "patch"
    /\ FileAt(last.mid, ParentPath).appVersion = YStr(<<"1", ".", "1", ".", "0">>)
    /\ last.new_version = <<"1", ".", "0", ".", "1">>
    /\ FileAt(fs, ParentPath).version = YStr(<<"0", ".", "3", ".", "2">>)

(***************************************************************************)
(* C6: a call of update_chart whose effective release type is 'none'       *)
(* writes nothing, reports chart_modified false and the old chart version  *)
(* as the new one, and main ends with exit code 0; chart_modified is true  *)
(* exactly when the effective release type is not 'none', and then the     *)
(* document was written.  With 'auto', a new version equal to the recorded *)
(* appVersion gives 'none'.                                                *)
(***************************************************************************)
C6_NoneIsNoOp ==
    /\ \A k \in Calls :
           /\ k.exc = "" =>
                  /\ k.result.chart_modified <=> k.result.release_type # "none"
                  /\ k.result.chart_modified <=> k.after # k.before
                  /\ k.result.release_type = "none" =>
                         k.result.new_chart_version = k.result.old_chart_version
           /\ ( /\ k.rtype = "auto"
                /\ IsChartDoc(FileAt(k.before, k.path))
                /\ FileAt(k.before, k.path).version.kind = "str"
                /\ HoldsSemver(FileAt(k.before, k.path).appVersion)
                /\ ContainsSemver(k.nv)
                /\ TripleOf(FileAt(k.before, k.path).appVersion) = extract_semver(k.nv).tuple )
              => (k.exc = "" /\ k.result.release_type = "none")
    /\ ( /\ IsMain /\ last.primary_called /\ PrimaryCall(last).exc = ""
         /\ last.result.release_type = "none" )
       => /\ last.exit = 0 /\ last.upd = last.pre /\ ~last.has_changes
          /\ \A q \in NotOutput(last) : FileAt(fs, q) = FileAt(last.pre, q)

\* the tag names the recorded appVersion and a parent was given
C6_Witness ==
    /\ IsMain /\ last.primary_called /\ last.exc = ""
    /\ last.result.release_type = "none"
    /\ ParentSupplied(last)
    /\ last.exit = 0 /\ fs = last.pre

(***************************************************************************)
(* C7: with 'auto', a document without an appVersion field is classified   *)
(* 'patch' without a classifier error, only its version is bumped and the  *)
(* written document still has no appVersion; a document with an appVersion *)
(* field and a release other than 'none' is written with appVersion equal  *)
(* to the new version.                                                     *)
(***************************************************************************)
C7_AppVersionKey ==
    \A k \in Calls :
        LET before == FileAt(k.before, k.path)
            after == FileAt(k.after, k.path)
        IN  /\ ( /\ k.rtype = "auto" /\ IsChartDoc(before)
                 /\ before.version.kind = "str"
                 /\ before.appVersion.kind = "absent"
                 /\ ContainsSemver(k.nv) )
               => /\ k.exc \in {"", "NoSemverFound"}
                  /\ k.exc = "NoSemverFound" => ~ContainsSemver(before.version.s)
                  /\ k.exc = "" =>
                         /\ k.result.release_type = "patch"
                         /\ after.appVersion.kind = "absent"
                         /\ after.version =
                                YStr(bump_semver(before.version.s, "patch").text)
                         /\ after.version # before.version
            /\ ( /\ k.exc = "" /\ before.appVersion.kind # "absent"
                 /\ k.result.release_type # "none" )
               => after.appVersion = YStr(k.nv)

\* a document without appVersion was bumped by a patch
C7_Witness ==
    /\ IsMain /\ last.primary_called /\ last.exc = ""
    /\ FileAt(last.pre, ChartPath).appVersion.kind = "absent"
    /\ FileAt(last.mid, ChartPath).appVersion.kind = "absent"
    /\ last.result.release_type = "patch"
    /\ FileAt(last.mid, ChartPath).version # FileAt(last.pre, ChartPath).version

(***************************************************************************)
(* C8: when the primary update wrote its document and the parent update    *)
(* then raises, main ends with exit code 1, the primary document keeps its *)
(* bumped version and new appVersion, and the parent document is as it was.*)
(***************************************************************************)
C8_NoRollback ==
    (IsMain /\ last.parent_called /\ last.parent_exc # "") =>
        /\ last.exit = 1
        /\ last.result.chart_modified
        /\ FileAt(fs, last.chart) = FileAt(last.mid, last.chart)
        /\ FileAt(fs, last.chart) # FileAt(last.pre, last.chart)
        /\ FileAt(fs, last.chart).version = YStr(last.result.new_chart_version)
        /\ FileAt(last.pre, last.chart).appVersion.kind # "absent" =>
               FileAt(fs, last.chart).appVersion = YStr(last.new_version)
        /\ FileAt(fs, ParentOf(last)) = FileAt(last.pre, ParentOf(last))

\* the parent file was missing after the primary document had been written
C8_Witness ==
    /\ IsMain /\ last.parent_called /\ last.parent_exc = "MissingMetadataFile"
    /\ last.exit = 1
    /\ FileAt(fs, ChartPath).appVersion = YStr(last.new_version)
    /\ FileAt(last.pre, ChartPath).appVersion # YStr(last.new_version)

(***************************************************************************)
(* C10 as claimed: no run of main that ends with exit code 0 replaces an   *)
(* appVersion holding a semver, in the primary or the parent document, by  *)
(* a lexicographically smaller one.                                        *)
(***************************************************************************)
C10_AppVersionNeverDecreases ==
    (IsMain /\ last.exit = 0) =>
        \A q \in Paths :
            ( /\ IsChartDoc(FileAt(last.pre, q)) /\ IsChartDoc(FileAt(fs, q))
              /\ HoldsSemver(FileAt(last.pre, q).appVersion)
              /\ HoldsSemver(FileAt(fs, q).appVersion) )
            => ~LexLess(TripleOf(FileAt(fs, q).appVersion),
                        TripleOf(FileAt(last.pre, q).appVersion))

====
